---- MODULE Spec2Model ----
(***************************************************************************)
(* Bass-to-Arduino bridge (script.py): the driver loop, the gain           *)
(* controller and the serial sink.                                         *)
(*                                                                         *)
(* gain is a Python float; every constant the controller adds to it is an  *)
(* integer multiple of 1/150000, so gain is kept here as an integer count  *)
(* of that unit (exact arithmetic; floating-point rounding error is not    *)
(* modelled).  bass_energy is the float32 mean of the band magnitudes; the *)
(* model draws it from non-negative integers.                              *)
(***************************************************************************)
EXTENDS Integers, FiniteSets, Sequences, TLC

VARIABLES adaptiveGain, gain, gainTimer, prevVal, val, bass_energy,
          overflow, pc, out, streamOpen, serOpen, exitCause,
          mutated, lastStep

\* mutated and lastStep are history variables, not program state:
\*   mutated  - the frame being processed has changed gain or gainTimer and
\*              its byte has not been written
\*   lastStep - what the most recent frame added to gain (0 if nothing)
vars == <<adaptiveGain, gain, gainTimer, prevVal, val, bass_energy,
          overflow, pc, out, streamOpen, serOpen, exitCause,
          mutated, lastStep>>

-----------------------------------------------------------------------------
(* Units and program constants *)

\* one unit of gain is 1/GainScale
GainScale == 150000

\* gain = 0.006
InitialGain == 900

timerGainMaxHigh == 60
timerGainMaxMid == 120
timerGainMaxLow == 90

\* 0.0008*(float(gainTimer*2)/timerGainMaxHigh) in gain units
StepHighHigh(t) == (8 * GainScale * 2 * t) \div (10000 * timerGainMaxHigh)

\* 0.0004*(float(gainTimer*2)/timerGainMaxHigh) in gain units
StepHigh(t) == (4 * GainScale * 2 * t) \div (10000 * timerGainMaxHigh)

\* gain += 0.0005
StepMid == (5 * GainScale) \div 10000

\* gain += 0.009
StepLow == (9 * GainScale) \div 1000

\* out when the current iteration has not handed a byte to the serial port
NoByte == -1

-----------------------------------------------------------------------------
(* Bounds of the exploration *)

\* the loop is followed while gainTimer is below MaxTimer ...
MaxTimer == 123
\* ... and for HHSlack more frames while val stays above 230
HHSlack == 10
\* frames that would raise gain above MaxGain are not explored
MaxGain == 3600

\* band energies a frame may have: digital silence, a hum at the silence
\* threshold, a loud bass note
Energies == {0, 50, 400000}

\* the same with a quiet but audible frame added
WideEnergies == Energies \cup {100}

\* gains the operator may type in non-adaptive mode (units of 1/GainScale)
OperatorGains == {-300, 0, 900, 2250, 150000}

-----------------------------------------------------------------------------
(* Pure functions *)

\* IntClip with the upper clip off by one: np.clip(x, 0, 256)
IntClipTo256(e, g) ==
    IF e <= 0 \/ g <= 0 THEN 0
    ELSE IF e >= (256 * GainScale + g - 1) \div g THEN 256
    ELSE (e * g) \div GainScale

\* IntClip rounding to the nearest integer instead of truncating
IntClipRounded(e, g) ==
    IF e <= 0 \/ g <= 0 THEN 0
    ELSE IF e >= (255 * GainScale + g - 1) \div g THEN 255
    ELSE IF 2 * ((e * g) % GainScale) >= GainScale
      THEN (e * g) \div GainScale + 1
    ELSE (e * g) \div GainScale

\* IntClip without the lower clip: int(min(x, 255)), truncating toward zero
IntClipNoFloor(e, g) ==
    IF e <= 0 \/ g = 0 THEN 0
    ELSE IF g < 0 THEN 0 - ((e * (0 - g)) \div GainScale)
    ELSE IF e >= (255 * GainScale + g - 1) \div g THEN 255
    ELSE (e * g) \div GainScale

\* int(np.clip(bass_energy * gain, 0, 255)): clip first, then truncate.
\* The product is compared with 255 by division so that it is only formed
\* when it is below 255 * GainScale.
IntClip(e, g) ==
    IF e <= 0 \/ g <= 0 THEN 0
    ELSE IF e >= (255 * GainScale + g - 1) \div g THEN 255
    ELSE (e * g) \div GainScale

\* gainTimer after the edge-detection statements.  prevVal has already been
\* overwritten with val when the comparisons run.
EdgeTimer(pv, v, t) ==
    IF pv < 205 /\ 205 < v THEN 0
    ELSE IF v < 195 /\ 195 < pv THEN 0
    ELSE t

\* Zone with the mid branch tested against timerGainMaxLow
ZoneMidLowThreshold(e, v, t, g) ==
    IF v > 230
      THEN <<t + 1, IF t + 1 > timerGainMaxHigh
                      THEN g - StepHighHigh(t + 1) ELSE g>>
    ELSE IF 205 < v /\ v < 231
      THEN <<t + 1, IF t + 1 > timerGainMaxHigh
                      THEN g - StepHigh(t + 1) ELSE g>>
    ELSE IF 80 < v /\ v < 195
      THEN <<t + 1, IF t + 1 > timerGainMaxLow THEN g + StepMid ELSE g>>
    ELSE IF e > 50 /\ v < 81
      THEN <<t + 1, IF t + 1 > timerGainMaxLow THEN g + StepLow ELSE g>>
    ELSE <<0, g>>

\* Zone with the decrements computed from the timer before "gainTimer += 1"
ZoneStepBeforeCount(e, v, t, g) ==
    IF v > 230
      THEN <<t + 1, IF t + 1 > timerGainMaxHigh
                      THEN g - StepHighHigh(t) ELSE g>>
    ELSE IF 205 < v /\ v < 231
      THEN <<t + 1, IF t + 1 > timerGainMaxHigh
                      THEN g - StepHigh(t) ELSE g>>
    ELSE IF 80 < v /\ v < 195
      THEN <<t + 1, IF t + 1 > timerGainMaxMid THEN g + StepMid ELSE g>>
    ELSE IF e > 50 /\ v < 81
      THEN <<t + 1, IF t + 1 > timerGainMaxLow THEN g + StepLow ELSE g>>
    ELSE <<0, g>>

\* Zone without the "gainTimer = 0" of the else branch
ZoneNoReset(e, v, t, g) ==
    IF v > 230
      THEN <<t + 1, IF t + 1 > timerGainMaxHigh
                      THEN g - StepHighHigh(t + 1) ELSE g>>
    ELSE IF 205 < v /\ v < 231
      THEN <<t + 1, IF t + 1 > timerGainMaxHigh
                      THEN g - StepHigh(t + 1) ELSE g>>
    ELSE IF 80 < v /\ v < 195
      THEN <<t + 1, IF t + 1 > timerGainMaxMid THEN g + StepMid ELSE g>>
    ELSE IF e > 50 /\ v < 81
      THEN <<t + 1, IF t + 1 > timerGainMaxLow THEN g + StepLow ELSE g>>
    ELSE <<t, g>>

\* Zone with the sign of the mid correction reversed
ZoneMidDecrements(e, v, t, g) ==
    IF v > 230
      THEN <<t + 1, IF t + 1 > timerGainMaxHigh
                      THEN g - StepHighHigh(t + 1) ELSE g>>
    ELSE IF 205 < v /\ v < 231
      THEN <<t + 1, IF t + 1 > timerGainMaxHigh
                      THEN g - StepHigh(t + 1) ELSE g>>
    ELSE IF 80 < v /\ v < 195
      THEN <<t + 1, IF t + 1 > timerGainMaxMid THEN g - StepMid ELSE g>>
    ELSE IF e > 50 /\ v < 81
      THEN <<t + 1, IF t + 1 > timerGainMaxLow THEN g + StepLow ELSE g>>
    ELSE <<0, g>>

\* Zone with the "gainTimer += 1" of the val > 230 branch left out
ZoneHighHighNoCount(e, v, t, g) ==
    IF v > 230
      THEN <<t, IF t > timerGainMaxHigh THEN g - StepHighHigh(t) ELSE g>>
    ELSE IF 205 < v /\ v < 231
      THEN <<t + 1, IF t + 1 > timerGainMaxHigh
                      THEN g - StepHigh(t + 1) ELSE g>>
    ELSE IF 80 < v /\ v < 195
      THEN <<t + 1, IF t + 1 > timerGainMaxMid THEN g + StepMid ELSE g>>
    ELSE IF e > 50 /\ v < 81
      THEN <<t + 1, IF t + 1 > timerGainMaxLow THEN g + StepLow ELSE g>>
    ELSE <<0, g>>

\* Zone with the "bass_energy > 50" test of the lowest zone left out
ZoneLowIgnoresEnergy(e, v, t, g) ==
    IF v > 230
      THEN <<t + 1, IF t + 1 > timerGainMaxHigh
                      THEN g - StepHighHigh(t + 1) ELSE g>>
    ELSE IF 205 < v /\ v < 231
      THEN <<t + 1, IF t + 1 > timerGainMaxHigh
                      THEN g - StepHigh(t + 1) ELSE g>>
    ELSE IF 80 < v /\ v < 195
      THEN <<t + 1, IF t + 1 > timerGainMaxMid THEN g + StepMid ELSE g>>
    ELSE IF v < 81
      THEN <<t + 1, IF t + 1 > timerGainMaxLow THEN g + StepLow ELSE g>>
    ELSE <<0, g>>

\* the if/elif chain of lines 121-138: <<gainTimer, gain>> after it
Zone(e, v, t, g) ==
    IF v > 230
      THEN <<t + 1, IF t + 1 > timerGainMaxHigh
                      THEN g - StepHighHigh(t + 1) ELSE g>>
    ELSE IF 205 < v /\ v < 231
      THEN <<t + 1, IF t + 1 > timerGainMaxHigh
                      THEN g - StepHigh(t + 1) ELSE g>>
    ELSE IF 80 < v /\ v < 195
      THEN <<t + 1, IF t + 1 > timerGainMaxMid THEN g + StepMid ELSE g>>
    ELSE IF e > 50 /\ v < 81
      THEN <<t + 1, IF t + 1 > timerGainMaxLow THEN g + StepLow ELSE g>>
    ELSE <<0, g>>

\* the adaptive branch, lines 115-138: <<val, prevVal, gainTimer, gain>>
AdaptiveUpdate(e, g, t) ==
    LET v  == IntClip(e, g)
        pv == v
        z  == Zone(e, v, EdgeTimer(pv, v, t), g)
    IN  <<v, pv, z[1], z[2]>>

\* Update with the "if adaptiveGain" test left out
UpdateIgnoringMode(adaptive, e, g, t, pv) == AdaptiveUpdate(e, g, t)

\* lines 114-140, both branches: <<val, prevVal, gainTimer, gain>>
Update(adaptive, e, g, t, pv) ==
    IF adaptive THEN AdaptiveUpdate(e, g, t)
    ELSE <<IntClip(e, g), pv, t, g>>

-----------------------------------------------------------------------------
(* State machine *)

Init ==
    /\ adaptiveGain \in BOOLEAN
    /\ gain \in (IF adaptiveGain THEN {InitialGain} ELSE OperatorGains)
    /\ gainTimer = 0
    /\ prevVal = 0
    /\ val = 0
    /\ bass_energy = 0
    /\ overflow = FALSE
    /\ pc = "read"
    /\ out = NoByte
    /\ streamOpen = TRUE
    /\ serOpen = TRUE
    /\ exitCause = "none"
    /\ mutated = FALSE
    /\ lastStep = 0

\* the frames the exploration follows
InBounds(e) ==
    \/ ~adaptiveGain
    \/ /\ \/ gainTimer < MaxTimer
          \/ val > 230 /\ gainTimer < MaxTimer + HHSlack
       /\ AdaptiveUpdate(e, gain, gainTimer)[4] <= MaxGain

\* One pass over lines 101-140: stream.read(CHUNK, exception_on_overflow=False)
\* returns a frame whether or not the capture buffer overflowed (ov), the FFT
\* reduces it to bass_energy = e, and the controller computes val.
Frame(e, ov) ==
    /\ pc = "read"
    /\ InBounds(e)
    /\ bass_energy' = e
    /\ overflow' = ov
    /\ LET r == Update(adaptiveGain, e, gain, gainTimer, prevVal)
       IN  /\ val' = r[1]
           /\ prevVal' = r[2]
           /\ gainTimer' = r[3]
           /\ gain' = r[4]
           /\ mutated' = (r[3] # gainTimer \/ r[4] # gain)
           /\ lastStep' = r[4] - gain
    /\ out' = NoByte
    /\ pc' = "write"
    /\ UNCHANGED <<adaptiveGain, streamOpen, serOpen, exitCause>>

\* a finally block that stops at p.terminate(): the serial handle stays open
ReleaseStreamOnly ==
    /\ streamOpen' = FALSE
    /\ serOpen' = serOpen
    /\ pc' = "exited"

\* the finally block: both handles are released
Release ==
    /\ streamOpen' = FALSE
    /\ serOpen' = FALSE
    /\ pc' = "exited"

\* stream.read raises (anything but an overflow): not caught by
\* "except KeyboardInterrupt", the finally block runs and the process ends
ReadError ==
    /\ pc = "read"
    /\ exitCause' = "read_error"
    /\ Release
    /\ UNCHANGED <<adaptiveGain, gain, gainTimer, prevVal, val, bass_energy,
                   overflow, out, mutated, lastStep>>

\* the analysis of lines 102-140 raises (numpy, int()): not caught by
\* "except KeyboardInterrupt", the finally block runs and the process ends.
\* The controller has not assigned anything yet.
AnalysisError ==
    /\ pc = "read"
    /\ exitCause' = "analysis_error"
    /\ Release
    /\ UNCHANGED <<adaptiveGain, gain, gainTimer, prevVal, val, bass_energy,
                   overflow, out, mutated, lastStep>>

\* a write that sends the value kept for edge detection instead of val
WritePrevVal ==
    /\ pc = "write"
    /\ prevVal \in 0..255
    /\ out' = prevVal
    /\ overflow' = FALSE
    /\ mutated' = FALSE
    /\ pc' = "read"
    /\ UNCHANGED <<adaptiveGain, gain, gainTimer, prevVal, val, bass_energy,
                   streamOpen, serOpen, exitCause, lastStep>>

\* ser.write(val.to_bytes(1, byteorder='big')) succeeds
Write ==
    /\ pc = "write"
    /\ val \in 0..255
    /\ out' = val
    /\ overflow' = FALSE
    /\ mutated' = FALSE
    /\ pc' = "read"
    /\ UNCHANGED <<adaptiveGain, gain, gainTimer, prevVal, val, bass_energy,
                   streamOpen, serOpen, exitCause, lastStep>>

\* ser.write raises (or to_bytes does): not caught by
\* "except KeyboardInterrupt", the finally block runs and the process ends
WriteError ==
    /\ pc = "write"
    /\ exitCause' = "write_error"
    /\ Release
    /\ UNCHANGED <<adaptiveGain, gain, gainTimer, prevVal, val, bass_energy,
                   overflow, out, mutated, lastStep>>

\* Ctrl+C while the loop runs: "except KeyboardInterrupt", then finally
Interrupt ==
    /\ pc \in {"read", "write"}
    /\ exitCause' = "interrupt"
    /\ Release
    /\ UNCHANGED <<adaptiveGain, gain, gainTimer, prevVal, val, bass_energy,
                   overflow, out, mutated, lastStep>>

ReadFrame == \E e \in Energies : \E ov \in BOOLEAN : Frame(e, ov)

ReadWideFrame == \E e \in WideEnergies : \E ov \in BOOLEAN : Frame(e, ov)

Next ==
    \/ ReadFrame
    \/ ReadError
    \/ AnalysisError
    \/ Write
    \/ WriteError
    \/ Interrupt

Spec == Init /\ [][Next]_vars

WideNext ==
    \/ ReadWideFrame
    \/ ReadError
    \/ AnalysisError
    \/ Write
    \/ WriteError
    \/ Interrupt

WideSpec == Init /\ [][WideNext]_vars

\* the loop is one thread that keeps running: a frame that can be read is
\* read, a byte that can be written is written
LiveSpec == Init /\ [][Next]_vars /\ WF_vars(ReadFrame) /\ WF_vars(Write)

-----------------------------------------------------------------------------
(* The recovery scenario: adaptive mode from the initial gain, every frame  *)
(* loud enough to produce val = 240                                         *)

\* the smallest energy whose product with gain g > 0 reaches 240
EnergyFor240(g) == (240 * GainScale + g - 1) \div g

RecoveryInit == Init /\ adaptiveGain

RecoveryFrame ==
    /\ gain > 0
    /\ \E ov \in BOOLEAN : Frame(EnergyFor240(gain), ov)
    /\ val' = 240

RecoveryNext ==
    \/ RecoveryFrame
    \/ Write

RecoverySpec == RecoveryInit /\ [][RecoveryNext]_vars

-----------------------------------------------------------------------------
(* Properties *)

\* a pass of the loop body up to the controller: the step Frame takes
FrameStep == pc = "read" /\ pc' = "write"

\* C1: in adaptive mode gain is strictly greater than 0 after every
\* controller update, whatever the frames were.
C1_GainPositive == adaptiveGain => gain > 0

\* C2: in both modes the value handed to the serial sink on every frame is an
\* integer in 0..255, however large energy * gain is: the val the loop is
\* about to write, and the byte it has written.
C2_OutputByteInRange ==
    /\ pc = "write" => val \in 0..255
    /\ out # NoByte => out \in 0..255

\* a byte was written for a frame whose energy * gain is far above 255
C2_Witness ==
    /\ out = 255
    /\ bass_energy = 400000
    /\ gain >= InitialGain

\* C3: in adaptive mode a frame whose val crosses above 205 from a previous
\* output below 205, or below 195 from a previous output above 195, ends
\* with gainTimer at most 1 (reset to 0, then at most one increment).
C3_EdgeResetsTimer ==
    [][(/\ adaptiveGain
        /\ FrameStep
        /\ \/ val < 205 /\ 205 < val'
           \/ val' < 195 /\ 195 < val)
       => gainTimer' <= 1]_vars

\* C4: in adaptive mode, while the loop keeps running, a frame with val > 230
\* is always followed by a later frame with val <= 230.
C4_NoSaturationLockUp ==
    (adaptiveGain /\ val > 230 /\ pc # "exited")
        ~> (val <= 230 \/ pc = "exited")

\* a loud frame whose val has been brought down to 230 or less by the
\* decrements of the zones above 205
C4_Witness ==
    /\ adaptiveGain
    /\ pc = "write"
    /\ bass_energy = 400000
    /\ val > 0
    /\ val <= 230
    /\ gain < InitialGain

\* C6: in the recovery scenario (adaptive mode from gain = 0.006 and
\* timer = 0, 70 consecutive frames each yielding val = 240) gain never
\* increases, strictly decreases on every frame once timer exceeds 60, and is
\* strictly positive after each of the 70 frames.
C6_RecoveryMonotonePositive ==
    [][FrameStep =>
         /\ gain' <= gain
         /\ gainTimer' > timerGainMaxHigh => gain' < gain
         /\ gainTimer' <= 70 => gain' > 0]_vars

\* C7: in adaptive mode every frame with energy <= 50 outputs val = 0, leaves
\* timer at 0 and leaves gain unchanged, from any reachable state.
C7_QuietFrameIsIdle ==
    [][(adaptiveGain /\ FrameStep /\ bass_energy' <= 50)
       => (val' = 0 /\ gainTimer' = 0 /\ gain' = gain)]_vars

\* C7 as amended: in adaptive mode every frame with energy 0 outputs val = 0,
\* and every frame with energy <= 50 whose val is at most 80 (every frame
\* with energy 0 among them) leaves timer at 0 and gain unchanged.
C7_QuietFrameIsIdleAmended ==
    [][(adaptiveGain /\ FrameStep /\ bass_energy' <= 50)
       => /\ bass_energy' = 0 => val' = 0
          /\ val' <= 80 => (gainTimer' = 0 /\ gain' = gain)]_vars

\* a hum at the silence threshold after gain has grown: the frame outputs 1,
\* timer is 0
C7_Witness ==
    /\ adaptiveGain
    /\ pc = "write"
    /\ bass_energy = 50
    /\ val = 1
    /\ gainTimer = 0

\* C8: in non-adaptive mode no frame changes GainState: gain keeps the
\* operator's value, timer stays at its initial 0, prevVal is not touched.
C8_NonAdaptiveFrozen ==
    [][~adaptiveGain =>
         /\ gain' = gain
         /\ gainTimer = 0 /\ gainTimer' = 0
         /\ prevVal' = prevVal]_vars

\* non-adaptive mode after a frame that produced a non-zero byte
C8_Witness ==
    /\ ~adaptiveGain
    /\ pc = "read"
    /\ out > 0
    /\ gain = InitialGain

\* round(p / d) for d > 0, ties to the even integer
Round(p, d) ==
    LET a == IF p >= 0 THEN p ELSE -p
        q == a \div d
        r == a % d
        n == IF 2 * r > d \/ (2 * r = d /\ q % 2 = 1) THEN q + 1 ELSE q
    IN  IF p >= 0 THEN n ELSE -n

\* int(p / d) for d > 0: truncation toward zero
Trunc(p, d) == IF p >= 0 THEN p \div d ELSE -((-p) \div d)

Clamp(x) == IF x < 0 THEN 0 ELSE IF x > 255 THEN 255 ELSE x

\* energy * gain is at least 256 (decided without forming the product)
AtLeast256(e, g) == g > 0 /\ e >= (256 * GainScale + g - 1) \div g

\* clamp(round(energy * gain), 0, 255)
ClampRound(e, g) ==
    IF AtLeast256(e, g) THEN 255 ELSE Clamp(Round(e * g, GainScale))

\* clamp(int(energy * gain), 0, 255)
ClampTrunc(e, g) ==
    IF AtLeast256(e, g) THEN 255 ELSE Clamp(Trunc(e * g, GainScale))

\* C9: in both modes the frame's output is clamp(round(energy * gain), 0,
\* 255), with the gain held before this frame's correction.
C9_OutputIsClampedRound ==
    [][FrameStep => val' = ClampRound(bass_energy', gain)]_vars

\* C9 as amended: in both modes the frame's output is energy * gain truncated
\* toward zero and clamped to 0..255, with the gain held before this frame's
\* correction.
C9_OutputIsClampedTrunc ==
    [][FrameStep => val' = ClampTrunc(bass_energy', gain)]_vars

\* energy 50 at gain 0.015: the product 0.75 went out as 0
C9_Witness ==
    /\ ~adaptiveGain
    /\ gain = 2250
    /\ bass_energy = 50
    /\ out = 0

\* C10: a per-frame failure never ends the loop: after an overflowed read the
\* frame is processed, and after a failed write the loop goes on to read the
\* next frame.
C10_FrameFailuresNeverExit ==
    [][/\ (FrameStep /\ overflow') => pc' = "write"
       /\ WriteError => pc' = "read"]_vars

\* C11: once the loop has been entered, every way of leaving it (an interrupt
\* at any point of an iteration, an exception raised by the read, the
\* analysis or the write) ends with the capture stream and the serial handle
\* both released.
C11_ExitReleasesBoth ==
    /\ pc = "exited" =>
          /\ ~streamOpen
          /\ ~serOpen
          /\ exitCause \in {"interrupt", "read_error", "analysis_error",
                            "write_error"}
    /\ pc # "exited" => streamOpen /\ serOpen /\ exitCause = "none"

\* the loop has been left by a failed write after frames that changed gain
\* (the timer has passed 60), and both handles are released
C11_Witness ==
    /\ pc = "exited"
    /\ exitCause = "write_error"
    /\ gainTimer > timerGainMaxHigh
    /\ ~streamOpen
    /\ ~serOpen

\* C12: a frame that is aborted before its byte is handed to the sink (an
\* interrupt inside the iteration, a failing read, a failing write) leaves
\* gain and timer at the values they had when that frame started.
C12_AbortedFrameLeavesController == pc = "exited" => ~mutated

\* the step that completes an iteration
WriteStep == pc = "write" /\ pc' = "read"

\* C13: every completed iteration transmits exactly one byte, equal to that
\* frame's val, after the controller update and before the next frame is
\* read; no extra or repeated bytes are sent.  In the model: the step that
\* completes an iteration finds no byte sent yet for this frame, sends val
\* and leaves val and the controller as the update set them; a byte appears
\* on no other step; and a frame is read only with the previous byte sent.
C13_OneByteDone ==
    /\ WriteStep =>
          /\ out = NoByte
          /\ out' = val
          /\ val' = val
          /\ gain' = gain
          /\ gainTimer' = gainTimer
    /\ (out' # out /\ out' # NoByte) => WriteStep
    /\ FrameStep => (out = NoByte \/ out = val) /\ out' = NoByte

C13_OneBytePerIteration == [][C13_OneByteDone]_vars

\* an iteration has completed after a correction fired and its non-zero val
\* is the byte on the wire
C13_Witness ==
    /\ pc = "read"
    /\ adaptiveGain
    /\ gainTimer > timerGainMaxHigh
    /\ out = val
    /\ out > 0

\* C14: after val moves from above 205 to below 195, or from below 205 to
\* above 205, a stale timer cannot trigger an immediate correction: no gain
\* decrease within the first 60 frames after entering the region above 205,
\* no increase within the first 90 frames after entering the region below
\* 195.  Stated for the first of those frames, the entering frame itself:
\* it does not decrease gain when val comes from below 205 to above 205, and
\* does not increase gain when val comes from above 205 to below 195.
C14_NoCorrectionOnEntry ==
    [][(adaptiveGain /\ FrameStep) =>
          /\ (val < 205 /\ val' > 205) => gain' >= gain
          /\ (val > 205 /\ val' < 195) => gain' <= gain]_vars

\* the hysteresis zone of a frame with output v and energy e, by the
\* conditions of the if/elif chain; "none" is the dead zone 195..205 and
\* the silent frame
ZoneOf(v, e) ==
    IF v > 230 THEN "hh"
    ELSE IF v > 205 THEN "high"
    ELSE IF 80 < v /\ v < 195 THEN "mid"
    ELSE IF e > 50 /\ v < 81 THEN "low"
    ELSE "none"

\* C15: the timer equals the number of consecutive most recent frames spent
\* in the current hysteresis zone (hh, high, mid or low-audible); a change
\* from one of these zones to another restarts the count, so the first frame
\* in the new zone leaves the timer at 1.
C15_ZoneChangeRestartsCount ==
    [][(/\ adaptiveGain
        /\ FrameStep
        /\ ZoneOf(val, bass_energy) # "none"
        /\ ZoneOf(val', bass_energy') # "none"
        /\ ZoneOf(val', bass_energy') # ZoneOf(val, bass_energy))
       => gainTimer' = 1]_vars

\* C16: if gain ever becomes zero or negative in adaptive mode, the system is
\* permanently silent: every later output is 0 and gain never becomes
\* positive again, whatever the input energy.
C16_SilentForever ==
    [][(adaptiveGain /\ gain <= 0) =>
          /\ gain' <= 0
          /\ FrameStep => val' = 0]_vars

\* C16 as the code has it: a frame that starts with gain <= 0 outputs 0 and
\* never lowers gain; with energy <= 50 it resets the timer and leaves gain,
\* with energy > 50 it counts in the low zone and, once the timer exceeds
\* 90, adds 0.009 - so the silence ends when gain has climbed above 0.
C16_SilentUntilLowZoneRecovers ==
    [][(adaptiveGain /\ FrameStep /\ gain <= 0) =>
          /\ val' = 0
          /\ bass_energy' <= 50 => gainTimer' = 0 /\ gain' = gain
          /\ bass_energy' > 50 =>
                /\ gainTimer' = gainTimer + 1
                /\ gain' = IF gainTimer' > timerGainMaxLow
                             THEN gain + StepLow
                           ELSE gain]_vars

\* a frame that started with gain <= 0 (val = 0 at energy 400000, and gain
\* at most one low-zone step) has made gain positive again
C16_Witness ==
    /\ adaptiveGain
    /\ pc = "write"
    /\ val = 0
    /\ bass_energy = 400000
    /\ gainTimer > timerGainMaxLow
    /\ gain > 0
    /\ gain <= StepLow

\* the number the timer must exceed before a frame in zone z corrects gain
ZoneThreshold(z) ==
    IF z = "mid" THEN 120
    ELSE IF z = "low" THEN 90
    ELSE 60

\* C17: the timer thresholds act as a debounce: gain is left unchanged by any
\* frame whose timer, after that frame's increment, does not exceed the
\* threshold of the frame's zone (60 for val > 205, 120 for 80 < val < 195,
\* 90 for val <= 80 with energy > 50); hence gain is unchanged during at
\* least the 60 frames that follow any timer reset: a frame raises the timer
\* by at most 1, and no frame whose timer ends at 60 or less changes gain.
C17_Debounce ==
    [][(adaptiveGain /\ FrameStep) =>
          /\ gainTimer' <= ZoneThreshold(ZoneOf(val', bass_energy'))
                => gain' = gain
          /\ gainTimer' <= gainTimer + 1
          /\ gainTimer' <= 60 => gain' = gain]_vars

\* a frame in the mid zone has brought the timer to 120, the last value
\* that does not exceed the mid threshold
C17_Witness ==
    /\ adaptiveGain
    /\ pc = "write"
    /\ 80 < val
    /\ val < 195
    /\ gainTimer = 120
    /\ lastStep = 0

\* C18: when a correction fires, gain changes by exactly the zone's step,
\* computed from the timer after the increment: -0.0008*(timer*2/60) for
\* val > 230, -0.0004*(timer*2/60) for 205 < val <= 230, +0.0005 for
\* 80 < val < 195, +0.009 for val <= 80 with energy > 50; so a high-zone
\* decrement is strictly larger than the decrement of the previous frame of
\* the same run (the previous frame fell in the same zone and decremented).
\* The equalities are those of the decimal constants, multiplied out.
C18_ExactStep ==
    [][(/\ adaptiveGain
        /\ FrameStep
        /\ gainTimer' > ZoneThreshold(ZoneOf(val', bass_energy'))) =>
          LET z == ZoneOf(val', bass_energy')
              d == gain' - gain
          IN  /\ z = "hh" =>
                   (0 - d) * 10000 * 60 = 8 * (gainTimer' * 2) * GainScale
              /\ z = "high" =>
                   (0 - d) * 10000 * 60 = 4 * (gainTimer' * 2) * GainScale
              /\ z = "mid" => d * 10000 = 5 * GainScale
              /\ z = "low" => d * 1000 = 9 * GainScale
              /\ z = "none" => d = 0
              /\ (/\ z \in {"hh", "high"}
                  /\ ZoneOf(val, bass_energy) = z
                  /\ lastStep < 0) => 0 - d > 0 - lastStep]_vars

\* a frame in the high zone (205 < val <= 230) has fired a correction
C18_Witness ==
    /\ adaptiveGain
    /\ pc = "write"
    /\ 205 < val
    /\ val <= 230
    /\ gainTimer > timerGainMaxHigh
    /\ lastStep < 0

\* C19: on every frame whose val is in the dead zone 195..205 inclusive, or
\* whose val is at most 80 while the energy is at most 50, the timer is 0
\* after the frame and gain is unchanged.
C19_DeadZoneAndSilenceReset ==
    [][(/\ adaptiveGain
        /\ FrameStep
        /\ \/ 195 <= val' /\ val' <= 205
           \/ val' <= 80 /\ bass_energy' <= 50) =>
          /\ gainTimer' = 0
          /\ gain' = gain]_vars

\* a frame has landed in the dead zone and left the timer at 0
C19_Witness ==
    /\ adaptiveGain
    /\ pc = "write"
    /\ 195 <= val
    /\ val <= 205
    /\ gainTimer = 0
    /\ lastStep = 0

\* C20: the controller is negative-feedback in direction: a frame decreases
\* gain only if its val is above 205 and increases gain only if its val is
\* below 195, each frame applies at most one correction (gain moves by one
\* zone step or not at all), and the timer changes per frame only by +1 or
\* by a reset to 0, so it is always a non-negative integer.
C20_FrameStepDirection ==
    /\ gain' < gain => val' > 205
    /\ gain' > gain => val' < 195
    /\ \/ gain' = gain
       \/ gain' = gain - StepHighHigh(gainTimer')
       \/ gain' = gain - StepHigh(gainTimer')
       \/ gain' = gain + StepMid
       \/ gain' = gain + StepLow
    /\ gainTimer' = gainTimer + 1 \/ gainTimer' = 0

C20_NegativeFeedback ==
    /\ [][(adaptiveGain /\ FrameStep) => C20_FrameStepDirection]_vars
    /\ [][~FrameStep => gainTimer' = gainTimer /\ gain' = gain]_vars
    /\ [](gainTimer \in Nat)

\* a frame in the mid zone has fired the upward correction
C20_Witness ==
    /\ adaptiveGain
    /\ pc = "write"
    /\ 80 < val
    /\ val < 195
    /\ gainTimer > timerGainMaxMid
    /\ lastStep > 0

====
